---- MODULE Spec2Model ----
(***************************************************************************)
(* eventcounter: a browser front-end that loads pretrained models (DETR    *)
(* object detection, CSRNet crowd density, face-api demographics), runs     *)
(* them on an uploaded image and fuses their person counts into one final   *)
(* count with a note.  src/app.js holds three variants of the application:  *)
(*   "A"  lines   1-236  detection + density, Spanish notes                 *)
(*   "B"  lines 237-577  detection + density + faces, toggles               *)
(*   "C"  lines 578-844  detection + density, analysis steps and delays     *)
(***************************************************************************)
EXTENDS Integers, FiniteSets, Sequences, TLC

(* ---------------------------- bounds ----------------------------------- *)
\* largest person count an estimator reports when showResults is examined
\* on its own (SpecFusion)
MaxCount == 3
\* number of images uploaded in one behaviour of the application (Spec)
MaxRuns == 2
\* person counts the estimators report inside the application runs (Spec)
SampleCounts == {0, 1}

(* ------------------------- program constants --------------------------- *)
\* JavaScript null: detectionCount / crowdCount before a successful call
Null == -1
\* the '-' shown as final count when neither count exists
Dash == -2

Variants == {"A", "B", "C"}
Kinds == {"detection", "crowd", "face"}

\* result-note texts of variants A and C (accents dropped)
NoteDense == "Escena densa: usando estimacion por densidad"
NoteDirect == "Personas visibles: usando deteccion directa"
NoteAverage == "Promedio de ambos metodos"
NoteOnlyDetection == "Solo deteccion disponible"
NoteOnlyDensity == "Solo estimacion por densidad"
NoteNoAnalysis == "No se pudo analizar la imagen"
\* result-note texts of variant B
NoteCSRNet == "Using CSRNet (Crowd settings enabled)"
NoteDETRSimilar == "Using DETR (Detection count similar/higher than density)"
NoteDETRDirect == "Using DETR (Direct detection)"
NoteFaceAPI == "Using FaceAPI (Detected more faces than bodies)"

(* --------------------------- showResults -------------------------------- *)
\* Math.round(n / 2) for an integer n >= 0: halves round up
RoundHalf(n) == (n + 1) \div 2

\* the dense-scene test taken with >= for >
FuseBothDenseOnTie(detection, crowd) ==
    IF crowd >= detection * 2
    THEN [final |-> crowd, note |-> NoteDense]
    ELSE IF detection > crowd
         THEN [final |-> detection, note |-> NoteDirect]
         ELSE [final |-> RoundHalf(detection + crowd), note |-> NoteAverage]

\* the branch taken when both counts exist (variants A and C, same code)
FuseBoth(detection, crowd) ==
    IF crowd > detection * 2
    THEN [final |-> crowd, note |-> NoteDense]
    ELSE IF detection > crowd
         THEN [final |-> detection, note |-> NoteDirect]
         ELSE [final |-> RoundHalf(detection + crowd), note |-> NoteAverage]

\* variant A: final estimate and note
ShowResultsA(detection, crowd) ==
    IF detection # Null /\ crowd # Null
    THEN FuseBoth(detection, crowd)
    ELSE IF detection # Null
         THEN [final |-> detection, note |-> NoteOnlyDetection]
         ELSE IF crowd # Null
              THEN [final |-> crowd, note |-> NoteOnlyDensity]
              ELSE [final |-> Dash, note |-> NoteNoAnalysis]

\* variant C: the single-source branch is  detection ?? crowd ?? '-'
ShowResultsC(detection, crowd) ==
    IF detection # Null /\ crowd # Null
    THEN FuseBoth(detection, crowd)
    ELSE [final |-> IF detection # Null THEN detection
                    ELSE IF crowd # Null THEN crowd ELSE Dash,
          note |-> IF detection # Null THEN NoteOnlyDetection
                   ELSE NoteOnlyDensity]

\* variant B, "Final Count Logic": personCount = counts['person'] || 0;
\* crowdCount > personCount * 1.5 is compared on doubled integers
BaseB(personCount, crowdCount, useCrowd) ==
    IF useCrowd /\ crowdCount # Null
    THEN IF 2 * crowdCount > 3 * personCount
         THEN [final |-> crowdCount, note |-> NoteCSRNet]
         ELSE [final |-> personCount, note |-> NoteDETRSimilar]
    ELSE [final |-> personCount, note |-> NoteDETRDirect]

\* the override firing on a tie as well (>= for >)
FaceOverrideOnTie(base, faces) ==
    IF faces >= base.final
    THEN [final |-> faces, note |-> NoteFaceAPI]
    ELSE base

\* the override with its comparison turned round (< for >)
FaceOverrideWhenFewer(base, faces) ==
    IF faces < base.final
    THEN [final |-> faces, note |-> NoteFaceAPI]
    ELSE base

\* variant B, the FaceAPI override; faces = faceResults.length
FaceOverride(base, faces) ==
    IF faces > base.final
    THEN [final |-> faces, note |-> NoteFaceAPI]
    ELSE base

ShowResultsB(personCount, crowdCount, faces, useCrowd) ==
    FaceOverride(BaseB(personCount, crowdCount, useCrowd), faces)

(* ------------- what analyzeImage hands to showResults ------------------ *)
\* An estimator outcome is Null (not invoked, or the call rejected) or the
\* count it returned.  Variants A and C pass detectionCount (null by
\* default); variant B passes detectorResults, [] by default, of which
\* showResults counts the 'person' entries: a failed call arrives as 0.
DetectionArg(v, det) == IF v = "B" /\ det = Null THEN 0 ELSE det
\* faceResults is [] by default (variant B only)
FacesArg(faces) == IF faces = Null THEN 0 ELSE faces

ShowResults(v, det, crowd, faces, useCrowd) ==
    CASE v = "A" -> ShowResultsA(DetectionArg(v, det), crowd)
      [] v = "B" -> ShowResultsB(DetectionArg(v, det), crowd, FacesArg(faces), useCrowd)
      [] v = "C" -> ShowResultsC(DetectionArg(v, det), crowd)

(* ------------------------------ state ----------------------------------- *)
VARIABLES
    variant,       \* which of the three variants of app.js is running
    detector,      \* TRUE once pipeline('object-detection', ...) resolved
    crowdSession,  \* TRUE once ort.InferenceSession.create resolved
    faceApiReady,  \* variant B: TRUE once the three face-api nets loaded
    modelsReady,   \* variants A, C: { detection, crowd }
    loadPc,        \* position of init / loadModels
    loadCalls,     \* the kinds whose load call loadModels has made so far
    run,           \* run[r]: the r-th uploaded image and its analyzeImage call
    dom,           \* the result elements of the page
    est            \* estimator outcomes handed to showResults on its own

vars == <<variant, detector, crowdSession, faceApiReady, modelsReady,
          loadPc, loadCalls, run, dom, est>>

Runs == 1 .. MaxRuns

\* module state at load: let detector = null; crowdSession = null; ...
NoModels ==
    /\ detector = FALSE
    /\ crowdSession = FALSE
    /\ faceApiReady = FALSE
    /\ modelsReady = [detection |-> FALSE, crowd |-> FALSE]

\* the locals of analyzeImage at entry, before any image is uploaded
NoRun ==
    [pc |-> "none", useCrowd |-> FALSE, useFace |-> FALSE,
     detection |-> Null, crowdCount |-> Null, faces |-> Null,
     pending |-> {}, invoked |-> {}, shown |-> 0]

\* the result elements before any showResults call
NoDom ==
    [countDetection |-> Null, countCrowd |-> Null, rowCrowd |-> FALSE,
     faces |-> 0, countTotal |-> Null, resultNote |-> "", results |-> FALSE]

NoEst ==
    [det |-> Null, crowd |-> Null, faces |-> Null, useCrowd |-> FALSE,
     shown |-> FALSE]

\* the writes showResults makes to the page.  Variants A and C fill
\* count-detection, count-crowd / row-crowd; variant B rebuilds the grid
\* (person item, Density item) and the demographics list.
DomShow(v, d, det, crowd, faces, useCrowd) ==
    LET r == ShowResults(v, det, crowd, faces, useCrowd)
        detArg == DetectionArg(v, det)
    IN  [d EXCEPT
           !.countDetection = IF v = "B" THEN detArg
                              ELSE IF detArg # Null THEN detArg ELSE Dash,
           !.countCrowd = IF v = "B" \/ crowd # Null THEN crowd ELSE @,
           !.rowCrowd = (crowd # Null),
           !.faces = IF v = "B" THEN FacesArg(faces) ELSE @,
           !.countTotal = r.final,
           !.resultNote = r.note,
           !.results = TRUE]

(* ------------------- showResults examined on its own -------------------- *)
Outcomes == {Null} \cup (0 .. MaxCount)

\* every combination of estimator outcomes analyzeImage can hand over:
\* variants A and C have no face estimator and no toggle; in variant B the
\* density estimator is only invoked with the crowd toggle on
InitFusion ==
    /\ variant \in Variants
    /\ NoModels
    /\ loadPc = "boot"
    /\ loadCalls = {}
    /\ run = [r \in Runs |-> NoRun]
    /\ dom = NoDom
    /\ \E d \in Outcomes, c \in Outcomes, f \in Outcomes, u \in BOOLEAN :
          /\ variant # "B" => (f = Null /\ u = FALSE)
          /\ (variant = "B" /\ ~u) => c = Null
          /\ est = [det |-> d, crowd |-> c, faces |-> f, useCrowd |-> u,
                    shown |-> FALSE]

ShowResultsCall ==
    /\ ~est.shown
    /\ est' = [est EXCEPT !.shown = TRUE]
    /\ dom' = DomShow(variant, dom, est.det, est.crowd, est.faces, est.useCrowd)
    /\ UNCHANGED <<variant, detector, crowdSession, faceApiReady, modelsReady,
                   loadPc, loadCalls, run>>

NextFusion == ShowResultsCall

SpecFusion == InitFusion /\ [][NextFusion]_vars

(* ----------------------------- loadModels ------------------------------- *)
\* handleImageUpload's readiness test: modelsReady.detection (A, C), detector (B)
DetectionReady == IF variant = "B" THEN detector ELSE modelsReady.detection

Init ==
    /\ variant \in Variants
    /\ NoModels
    /\ loadPc = "boot"
    /\ loadCalls = {}
    /\ run = [r \in Runs |-> NoRun]
    /\ dom = NoDom
    /\ est = NoEst

\* DOMContentLoaded: init() attaches the change listener and enters
\* loadModels, which runs up to  await pipeline(...)
InitApp ==
    /\ loadPc = "boot"
    /\ loadPc' = "detr"
    /\ loadCalls' = {"detection"}
    /\ UNCHANGED <<variant, detector, crowdSession, faceApiReady, modelsReady,
                   run, dom, est>>

\* where loadModels goes once the CSRNet try/catch is behind it
AfterCrowdLoad(v) ==
    CASE v = "A" -> "done"      \* enableUpload()
      [] v = "B" -> "face1"     \* await faceapi.nets.tinyFaceDetector...
      [] v = "C" -> "timer"     \* setTimeout(enableUpload, 500)

\* pipeline(...) settles.  Resolved: detector is set and the CSRNet load is
\* started.  Rejected: the outer catch ends loadModels.
DetrLoadSettle ==
    /\ loadPc = "detr"
    /\ \E ok \in BOOLEAN :
          IF ok
          THEN /\ detector' = TRUE
               /\ modelsReady' = [modelsReady EXCEPT !.detection = (variant # "B")]
               /\ loadCalls' = loadCalls \cup {"crowd"}
               /\ loadPc' = "crowd"
          ELSE /\ loadPc' = "error"
               /\ UNCHANGED <<detector, modelsReady, loadCalls>>
    /\ UNCHANGED <<variant, crowdSession, faceApiReady, run, dom, est>>

\* ort.InferenceSession.create(...) settles; a rejection is caught and
\* loadModels goes on
CrowdLoadSettle ==
    /\ loadPc = "crowd"
    /\ \E ok \in BOOLEAN :
          /\ crowdSession' = ok
          /\ modelsReady' = [modelsReady EXCEPT !.crowd = (ok /\ variant # "B")]
    /\ loadPc' = AfterCrowdLoad(variant)
    /\ loadCalls' = IF variant = "B" THEN loadCalls \cup {"face"} ELSE loadCalls
    /\ UNCHANGED <<variant, detector, faceApiReady, run, dom, est>>

\* variant B: the three face-api nets load one after the other inside one
\* try; faceApiReady is set after the third, any rejection skips the rest
FaceLoadSettle ==
    /\ loadPc \in {"face1", "face2", "face3"}
    /\ \E ok \in BOOLEAN :
          IF ok
          THEN /\ loadPc' = CASE loadPc = "face1" -> "face2"
                              [] loadPc = "face2" -> "face3"
                              [] loadPc = "face3" -> "timer"
               /\ faceApiReady' = (loadPc = "face3")
          ELSE /\ loadPc' = "timer"
               /\ UNCHANGED faceApiReady
    /\ UNCHANGED <<variant, detector, crowdSession, modelsReady, loadCalls,
                   run, dom, est>>

\* variants B, C: the setTimeout callback hides the progress and enables upload
EnableUploadTimer ==
    /\ loadPc = "timer"
    /\ loadPc' = "done"
    /\ UNCHANGED <<variant, detector, crowdSession, faceApiReady, modelsReady,
                   loadCalls, run, dom, est>>

(* ----------------------------- analyzeImage ----------------------------- *)
\* is the optional estimator k run for the call with locals s?
\*   A, C:  if (crowdSession)          B:  if (useCrowd && crowdSession)
\*                                     B:  if (useFace && faceApiReady)
Qualifies(k, s) ==
    CASE k = "crowd" -> IF variant = "B" THEN s.useCrowd /\ crowdSession
                        ELSE crowdSession
      [] k = "face" -> variant = "B" /\ s.useFace /\ faceApiReady

\* the call of estimator k is made and awaited at position pc
\* (pending: calls not yet settled; invoked: every call the run has made)
Invoke(s, k, pc) ==
    [s EXCEPT !.pc = pc, !.pending = @ \cup {k}, !.invoked = @ \cup {k}]

\* the code after the FaceAPI block: showResults follows with no await
AfterFace(s) == [s EXCEPT !.pc = "show"]

\* the code after the CSRNet block
AfterCrowd(s) ==
    CASE variant = "A" -> AfterFace(s)
      [] variant = "B" -> IF Qualifies("face", s)
                          THEN Invoke(s, "face", "faceAwait")
                          ELSE AfterFace(s)
      [] variant = "C" -> [s EXCEPT !.pc = "delay2"]   \* await delay(300)

\* the CSRNet call made without await: analyzeImage goes on while it runs
AfterDetectNoAwait(s) ==
    IF Qualifies("crowd", s)
    THEN AfterCrowd([s EXCEPT !.pending = @ \cup {"crowd"},
                              !.invoked = @ \cup {"crowd"}])
    ELSE AfterCrowd(s)

\* the code after the DETR try/catch
AfterDetect(s) ==
    IF Qualifies("crowd", s)
    THEN Invoke(s, "crowd", "crowdAwait")
    ELSE AfterCrowd(s)

\* catch (err) { console.error(...) } of each estimator: the count keeps its
\* default and analyzeImage goes on
\* no catch around the detector call: the rejection ends analyzeImage
DetectRejectedUncaught(s) == [s EXCEPT !.pc = "thrown"]

\* one try around all estimators: a detector rejection skips the others
DetectRejectedSkipsRest(s) == AfterFace(s)

DetectRejected(s) == AfterDetect(s)
CrowdRejected(s) == AfterCrowd(s)
FaceRejected(s) == AfterFace(s)

\* the run r lands in t: either at its next await, or, when t reached
\* showResults, the page is written and analyzeImage returns (its locals die)
Land(r, t) ==
    IF t.pc = "show"
    THEN /\ dom' = DomShow(variant, dom, t.detection, t.crowdCount, t.faces,
                           t.useCrowd)
         /\ run' = [run EXCEPT ![r] = [NoRun EXCEPT !.pc = "done",
                                                     !.pending = t.pending,
                                                     !.invoked = t.invoked,
                                                     !.shown = t.shown + 1]]
    ELSE /\ run' = [run EXCEPT ![r] = t]
         /\ dom' = dom

\* change event of the uploader that handleImageUpload returns from at once:
\* no file was chosen, or detection is not ready.  Nothing is written.
UploadIgnored ==
    /\ loadPc # "boot"
    /\ \E file \in BOOLEAN : ~file \/ ~DetectionReady
    /\ UNCHANGED vars

\* as HandleImageUpload, but without the test of the detection model
HandleImageUploadUnguarded(r) ==
    /\ loadPc # "boot"
    /\ run[r].pc = "none"
    /\ \A q \in Runs : q < r => run[q].pc # "none"
    /\ run' = [run EXCEPT ![r].pc = "onload"]
    /\ dom' = [dom EXCEPT !.results = FALSE]
    /\ UNCHANGED <<variant, detector, crowdSession, faceApiReady, modelsReady,
                   loadPc, loadCalls, est>>

\* change event of the uploader with a file, models ready: hideResults(),
\* new Image(), img.src = ...   Images are numbered in upload order.
HandleImageUpload(r) ==
    /\ loadPc # "boot"
    /\ DetectionReady
    /\ run[r].pc = "none"
    /\ \A q \in Runs : q < r => run[q].pc # "none"
    /\ run' = [run EXCEPT ![r].pc = "onload"]
    /\ dom' = [dom EXCEPT !.results = FALSE]
    /\ UNCHANGED <<variant, detector, crowdSession, faceApiReady, modelsReady,
                   loadPc, loadCalls, est>>

\* img.onload: analyzeImage(img) runs up to its first await.  Variant B
\* reads the two toggles; variant C first awaits delay(300).
ImgOnload(r) ==
    /\ run[r].pc = "onload"
    /\ \E uc \in BOOLEAN, uf \in BOOLEAN :
          /\ variant # "B" => (uc = FALSE /\ uf = FALSE)
          /\ LET s == [run[r] EXCEPT !.useCrowd = uc, !.useFace = uf]
             IN  Land(r, IF variant = "C" THEN [s EXCEPT !.pc = "delay1"]
                         ELSE Invoke(s, "detection", "detAwait"))
    /\ UNCHANGED <<variant, detector, crowdSession, faceApiReady, modelsReady,
                   loadPc, loadCalls, est>>

\* variant C: the first delay(300) elapses, DETR is called
Delay1Done(r) ==
    /\ run[r].pc = "delay1"
    /\ Land(r, Invoke(run[r], "detection", "detAwait"))
    /\ UNCHANGED <<variant, detector, crowdSession, faceApiReady, modelsReady,
                   loadPc, loadCalls, est>>

\* as DetectSettle, but the catch of the detector call marks the detection
\* model as not loaded
DetectSettleDropsModel(r) ==
    /\ run[r].pc = "detAwait"
    /\ "detection" \in run[r].pending
    /\ \E o \in {Null} \cup SampleCounts :
          LET s == [run[r] EXCEPT !.pending = @ \ {"detection"}]
          IN  /\ Land(r, IF o = Null THEN DetectRejected(s)
                         ELSE AfterDetect([s EXCEPT !.detection = o]))
              /\ detector' = (detector /\ o # Null)
              /\ modelsReady' = [modelsReady EXCEPT !.detection = (@ /\ o # Null)]
    /\ UNCHANGED <<variant, crowdSession, faceApiReady, loadPc, loadCalls, est>>

\* the detector call settles: o = Null when it rejected, else the number of
\* 'person' results
DetectSettle(r) ==
    /\ run[r].pc = "detAwait"
    /\ "detection" \in run[r].pending
    /\ \E o \in {Null} \cup SampleCounts :
          LET s == [run[r] EXCEPT !.pending = @ \ {"detection"}]
          IN  Land(r, IF o = Null THEN DetectRejected(s)
                      ELSE AfterDetect([s EXCEPT !.detection = o]))
    /\ UNCHANGED <<variant, detector, crowdSession, faceApiReady, modelsReady,
                   loadPc, loadCalls, est>>

\* as CrowdSettle, but the catch of the density call discards the session
CrowdSettleDropsSession(r) ==
    /\ run[r].pc = "crowdAwait"
    /\ "crowd" \in run[r].pending
    /\ \E o \in {Null} \cup SampleCounts :
          LET s == [run[r] EXCEPT !.pending = @ \ {"crowd"}]
          IN  /\ Land(r, IF o = Null THEN CrowdRejected(s)
                         ELSE AfterCrowd([s EXCEPT !.crowdCount = o]))
              /\ crowdSession' = (crowdSession /\ o # Null)
    /\ UNCHANGED <<variant, detector, faceApiReady, modelsReady,
                   loadPc, loadCalls, est>>

\* runCrowdModel settles: o = Null when it rejected, else Math.round(sum)
CrowdSettle(r) ==
    /\ run[r].pc = "crowdAwait"
    /\ "crowd" \in run[r].pending
    /\ \E o \in {Null} \cup SampleCounts :
          LET s == [run[r] EXCEPT !.pending = @ \ {"crowd"}]
          IN  Land(r, IF o = Null THEN CrowdRejected(s)
                      ELSE AfterCrowd([s EXCEPT !.crowdCount = o]))
    /\ UNCHANGED <<variant, detector, crowdSession, faceApiReady, modelsReady,
                   loadPc, loadCalls, est>>

\* variant B: faceapi.detectAllFaces(...) settles: o = Null when it
\* rejected, else the number of faces
FaceSettle(r) ==
    /\ run[r].pc = "faceAwait"
    /\ "face" \in run[r].pending
    /\ \E o \in {Null} \cup SampleCounts :
          LET s == [run[r] EXCEPT !.pending = @ \ {"face"}]
          IN  Land(r, IF o = Null THEN FaceRejected(s)
                      ELSE AfterFace([s EXCEPT !.faces = o]))
    /\ UNCHANGED <<variant, detector, crowdSession, faceApiReady, modelsReady,
                   loadPc, loadCalls, est>>

\* variant C: the second delay(300) elapses, showResults is called
Delay2Done(r) ==
    /\ run[r].pc = "delay2"
    /\ Land(r, AfterFace(run[r]))
    /\ UNCHANGED <<variant, detector, crowdSession, faceApiReady, modelsReady,
                   loadPc, loadCalls, est>>

\* the continuation of analyzeImage for image r after whichever promise it
\* awaits (a run awaits one promise at a time)
Resume(r) ==
    \/ Delay1Done(r)
    \/ DetectSettle(r)
    \/ CrowdSettle(r)
    \/ FaceSettle(r)
    \/ Delay2Done(r)

Next ==
    \/ InitApp
    \/ DetrLoadSettle
    \/ CrowdLoadSettle
    \/ FaceLoadSettle
    \/ EnableUploadTimer
    \/ UploadIgnored
    \/ \E r \in Runs : HandleImageUpload(r)
    \/ \E r \in Runs : ImgOnload(r)
    \/ \E r \in Runs : Resume(r)

Spec == Init /\ [][Next]_vars

\* every promise an analysis awaits settles and every timer fires: the event
\* loop then runs the continuation
Fairness == \A r \in Runs : WF_vars(Resume(r))

FairSpec == Spec /\ Fairness

(* ======================= properties of showResults ====================== *)
\* notes that name the density estimate / the direct detection as the source
DensityNotes == {NoteDense, NoteOnlyDensity, NoteCSRNet}
DetectionNotes == {NoteDirect, NoteOnlyDetection, NoteDETRSimilar, NoteDETRDirect}

\* the estimator outcomes of the examined call
D == est.det
C == est.crowd
F == est.faces

\* the fusion rule for two available counts and no face estimate
RuleFinal(d, c) ==
    IF c > 2 * d THEN c
    ELSE IF d > c THEN d
    ELSE RoundHalf(d + c)

\* C1 (as claimed): whenever detection count D and density count C are both
\* available and there is no face estimate, the displayed final count is C if
\* C > 2*D, else D if D > C, else round((D+C)/2) rounded half-up, in every
\* variant of showResults.
C1_FusionRuleEveryVariant ==
    (est.shown /\ D # Null /\ C # Null /\ F = Null)
        => dom.countTotal = RuleFinal(D, C)

\* C2 (as claimed): when no estimate succeeded (detection failed, no density
\* count, no faces) the displayed final count is 0 or the '-' sentinel and
\* the note is the "could not analyse" note, never one naming an estimator.
C2_NoDataNote ==
    (est.shown /\ D = Null /\ C = Null /\ F = Null)
        => /\ dom.countTotal \in {0, Dash}
           /\ dom.resultNote = NoteNoAnalysis

\* C3: in the variant with a face estimator, with base the count and note of
\* the detection/density branch: a face estimate F > base count makes the
\* final count F with the FaceAPI note; otherwise final count and note are
\* exactly those of the base branch.
C3_FaceOverride ==
    (est.shown /\ variant = "B") =>
        LET base == BaseB(DetectionArg(variant, D), C, est.useCrowd)
        IN  IF F # Null /\ F > base.final
            THEN dom.countTotal = F /\ dom.resultNote = NoteFaceAPI
            ELSE dom.countTotal = base.final /\ dom.resultNote = base.note

\* C3 witness: a face estimate above the base count has replaced it
C3_Witness ==
    /\ est.shown /\ variant = "B" /\ F # Null /\ C # Null /\ D # Null
    /\ F > BaseB(D, C, est.useCrowd).final
    /\ dom.countTotal = F

\* the final count of the examined detection and density outcomes when no
\* face result is handed over: the fusion of the two counts alone
FinalWithoutFaces ==
    CASE variant = "A" -> ShowResultsA(D, C).final
      [] variant = "B" -> BaseB(DetectionArg(variant, D), C, est.useCrowd).final
      [] variant = "C" -> ShowResultsC(D, C).final

\* C4: the final count shown with a face estimate present is never below the
\* final count the same detection results, density count and crowd toggle
\* give with no face estimate.
C4_FaceNeverLowers ==
    est.shown => dom.countTotal >= FinalWithoutFaces

\* C4 witness: a face estimate is present and below the count of the others
C4_Witness ==
    /\ est.shown /\ variant = "B" /\ F # Null
    /\ F < FinalWithoutFaces

\* C5 (as claimed): D = 0 and C = 0 both available, F absent or 0: the final
\* count is 0 and the note is none of the averaging, density or
\* direct-detection notes (it is a "no people detected" note).
C5_NoPeopleNote ==
    (est.shown /\ D = 0 /\ C = 0 /\ F \in {Null, 0})
        => /\ dom.countTotal = 0
           /\ dom.resultNote \notin ({NoteAverage} \cup DensityNotes
                                      \cup DetectionNotes)

\* C5 (amended): D = 0 and C = 0 both available, F absent or 0: the final
\* count is 0 and the note is the averaging note in the two variants without
\* faces and the "Using DETR (Detection count similar/higher than density)"
\* note in the variant with faces.
C5_ZeroZeroAverages ==
    (est.shown /\ D = 0 /\ C = 0 /\ F \in {Null, 0})
        => /\ dom.countTotal = 0
           /\ dom.resultNote = IF variant = "B" THEN NoteDETRSimilar
                               ELSE NoteAverage

\* C5 witness: showResults has run on D = 0, C = 0 with no face
C5_Witness ==
    est.shown /\ D = 0 /\ C = 0 /\ F \in {Null, 0} /\ dom.countTotal = 0

\* C6 (as claimed): exactly one of D and C available and no face estimate:
\* the final count is the available one and the note names that source, a
\* density note when only C is available, a detection note when only D is.
C6_SoleSource ==
    (est.shown /\ F = Null /\ (D = Null) # (C = Null)) =>
        IF D # Null
        THEN dom.countTotal = D /\ dom.resultNote \in DetectionNotes
        ELSE dom.countTotal = C /\ dom.resultNote \in DensityNotes

(* ================== properties of loading and analysis ================== *)
\* loadModels has ended, by its last statement or by its outer catch
LoadSettled == loadPc \in {"done", "error"}

\* C7 (as claimed): the load of each estimator kind is independent of the
\* others: whatever load failed, once loadModels has ended the load of every
\* other kind has been made (density in every variant, faces in the variant
\* that has them), so that it can be used by later analyses.
C7_LoadsIndependent ==
    LoadSettled =>
        /\ "crowd" \in loadCalls
        /\ variant = "B" => "face" \in loadCalls

\* analyzeImage has been entered for image r
Started(r) == run[r].pc \notin {"none", "onload"}

\* analyzeImage has returned for image r
Finished(r) == run[r].pc = "done"

\* C8: every analysis run that has entered analyzeImage eventually reaches
\* showResults, whichever estimator calls reject (all of them included), and
\* showResults runs exactly once per run: never twice, and once when the run
\* is over.  A started run stays started and a finished run stays finished,
\* so "every started run eventually finishes" is stated as: again and again
\* every run started so far has finished.
C8_EveryRunShowsOnce ==
    /\ [](\A r \in Runs : /\ run[r].shown <= 1
                          /\ Finished(r) <=> run[r].shown = 1)
    /\ [][\A r \in Runs : /\ Started(r) => Started(r)'
                          /\ Finished(r) => Finished(r)']_vars
    /\ []<>(\A r \in Runs : Started(r) => Finished(r))

\* C8 witness: variant A with CSRNet loaded: a run is over whose detector
\* call and density call both rejected
C8_Witness ==
    /\ variant = "A" /\ run[1].pc = "done" /\ run[1].shown = 1
    /\ run[1].invoked = {"detection", "crowd"}
    /\ run[2].pc = "none"
    /\ dom.countTotal = Dash

\* C9: showResults of a run is executed only when every estimator call the
\* run has started has settled: no call of the run is pending when (and
\* after) the final count is computed.
C9_FusionAfterAllSettled ==
    \A r \in Runs : run[r].shown > 0 => run[r].pending = {}

\* C9 witness: a run that made two estimator calls has shown its result
C9_Witness ==
    \E r \in Runs :
        /\ run[r].shown = 1
        /\ {"detection", "crowd"} \subseteq run[r].invoked
        /\ run[r].pending = {}

\* the run r leaves the stage at which estimator k is decided on
LeavesDetection(r) == run[r].pc = "detAwait" /\ run'[r].pc # "detAwait"
LeavesCrowd(r) ==
    /\ variant = "B"
    /\ run[r].pc \in {"detAwait", "crowdAwait"}
    /\ run'[r].pc \in {"faceAwait", "done"}

\* the counts a page d displays, and the final count showResults gives for
\* the displayed detection count with density count c and face count f
ShownDetection(d) == IF d.countDetection = Dash THEN Null ELSE d.countDetection
ShownCrowd(d) == IF d.rowCrowd THEN d.countCrowd ELSE Null
FinalOf(d, c, f) == ShowResults(variant, ShownDetection(d), c, f, c # Null).final

\* C10: in each run an optional estimator (density, face) is invoked if and
\* only if it is loaded and, where a toggle exists, enabled, whether the
\* detector call of the run succeeded or failed; one that is not invoked
\* leaves no count: its local stays null, showResults displays no count for
\* it and the final count is the one the other estimators give without it.
C10_InvokedIffQualifying ==
    /\ [][\A r \in Runs :
            LET new == run'[r].invoked \ run[r].invoked
            IN  /\ "crowd" \in new => Qualifies("crowd", run[r])
                /\ "face" \in new => Qualifies("face", run[r])
                /\ LeavesDetection(r) =>
                      ("crowd" \in new <=> Qualifies("crowd", run[r]))
                /\ LeavesCrowd(r) =>
                      ("face" \in new <=> Qualifies("face", run[r]))
                /\ (run'[r].shown > run[r].shown /\ "crowd" \notin run'[r].invoked)
                      => /\ ~dom'.rowCrowd
                         /\ dom'.countTotal = FinalOf(dom', Null, dom'.faces)
                /\ (run'[r].shown > run[r].shown /\ "face" \notin run'[r].invoked)
                      => /\ dom'.faces = 0
                         /\ dom'.countTotal = FinalOf(dom', ShownCrowd(dom'), Null)
        ]_vars
    /\ [](\A r \in Runs :
            /\ "crowd" \notin run[r].invoked => run[r].crowdCount = Null
            /\ "face" \notin run[r].invoked => run[r].faces = Null)

\* C10 witness: the detector call of a run rejected and its density
\* estimator, loaded, is invoked all the same
C10_Witness ==
    \E r \in Runs :
        /\ run[r].pc = "crowdAwait"
        /\ run[r].detection = Null
        /\ "crowd" \in run[r].pending

\* the availability of estimator kind k, read from the module variables and
\* from where loadModels stands: a kind is NotLoaded until its load settles
Availability(k) ==
    CASE k = "detection" ->
            IF detector THEN "Loaded"
            ELSE IF loadPc = "error" THEN "LoadFailed" ELSE "NotLoaded"
      [] k = "crowd" ->
            IF crowdSession THEN "Loaded"
            ELSE IF loadPc \in {"face1", "face2", "face3", "timer", "done"}
                 THEN "LoadFailed" ELSE "NotLoaded"
      [] k = "face" ->
            IF faceApiReady THEN "Loaded"
            ELSE IF variant = "B" /\ loadPc \in {"timer", "done"}
                 THEN "LoadFailed" ELSE "NotLoaded"

ModelState == <<detector, crowdSession, faceApiReady, modelsReady>>

\* C11: the availability of each kind only moves NotLoaded -> Loaded or
\* NotLoaded -> LoadFailed and never moves again; a step of an upload or of
\* an analysis run (an inference failure included) changes none of detector,
\* crowdSession, faceApiReady, modelsReady, and nothing changes them once
\* loadModels has ended.
C11_AvailabilityTerminal ==
    [][
        /\ \A k \in Kinds :
              Availability(k) # "NotLoaded" => Availability(k)' = Availability(k)
        /\ (run' # run \/ dom' # dom) => ModelState' = ModelState
        /\ LoadSettled => ModelState' = ModelState
    ]_vars

\* C11 witness: with the three kinds loaded, a run in which the three
\* estimators were invoked has ended with no density row on the page (the
\* density call rejected), and the three models are still loaded
C11_Witness ==
    /\ variant = "B" /\ loadPc = "done"
    /\ \A k \in Kinds : Availability(k) = "Loaded"
    /\ run[1].pc = "done" /\ run[1].invoked = {"detection", "crowd", "face"}
    /\ run[2].pc = "none"
    /\ dom.results /\ ~dom.rowCrowd

\* analyzeImage of image r is past the point where it calls the detector
PastDetectorCall(r) ==
    run[r].pc \in {"detAwait", "crowdAwait", "faceAwait", "delay2", "done"}

\* C12: while the detection model is not loaded (still loading, or its load
\* failed) no upload is taken up, no analysis run starts and no estimator is
\* invoked: an event then leaves the runs and the page as they are.  Every
\* run that was taken up found detection loaded, and calls the detector
\* whatever the density and face toggles say.
C12_DetectionGatesEveryRun ==
    /\ [](\A r \in Runs :
            /\ (run[r].pc # "none" \/ run[r].invoked # {})
                  => (DetectionReady /\ Availability("detection") = "Loaded")
            /\ PastDetectorCall(r) => "detection" \in run[r].invoked)
    /\ [][Availability("detection") # "Loaded" => UNCHANGED <<run, dom>>]_vars

\* C12 witness: variant B with the three models loaded, both toggles off: the
\* run awaits the detector, the only estimator it has invoked
C12_Witness ==
    /\ variant = "B" /\ crowdSession /\ faceApiReady
    /\ run[1].pc = "detAwait"
    /\ ~run[1].useCrowd /\ ~run[1].useFace
    /\ run[1].pending = {"detection"}

\* the page shows what run q wrote (no other run has written yet) and that
\* estimator k failed in q: variants A and C show '-' for a rejected detector
\* call, and no density row when the density call q made rejected.  (Variant
\* B shows 0 for a rejected detector call and for a rejected face call, as
\* for a count of 0.)
FailedIn(q, k) ==
    /\ run[q].shown = 1
    /\ \A p \in Runs \ {q} : run[p].shown = 0
    /\ CASE k = "detection" -> variant # "B" /\ dom.countDetection = Dash
         [] k = "crowd" -> "crowd" \in run[q].invoked /\ ~dom.rowCrowd
         [] k = "face" -> FALSE

\* run r writes its result to the page in this step
Shows(r) == run'[r].shown > run[r].shown

\* C13: an inference failure concerns its own run only.  No step of a run,
\* a rejected call included, changes the loaded models.  After a run q in
\* which an estimator failed, another run calls that estimator again: the
\* detector always, the density estimator unless its toggle is off.  A count
\* a run obtained is the one its showResults displays, and the final count
\* is the fusion of the displayed counts.
C13_FailureForThisRunOnly ==
    [][
        /\ run' # run => ModelState' = ModelState
        /\ \A q \in Runs : \A r \in Runs \ {q} :
              LET new == run'[r].invoked \ run[r].invoked
              IN  /\ (FailedIn(q, "detection") /\ ~PastDetectorCall(r)
                        /\ PastDetectorCall(r)') => "detection" \in new
                  /\ (FailedIn(q, "crowd") /\ LeavesDetection(r))
                        => ("crowd" \in new <=> (variant = "B" => run[r].useCrowd))
        /\ \A r \in Runs :
              Shows(r) =>
                 /\ (run[r].pc # "detAwait" /\ run[r].detection # Null)
                       => dom'.countDetection = run[r].detection
                 /\ run[r].crowdCount # Null
                       => (dom'.rowCrowd /\ dom'.countCrowd = run[r].crowdCount)
                 /\ dom'.countTotal = FinalOf(dom', ShownCrowd(dom'), dom'.faces)
    ]_vars

\* C13 witness: variant C: the detector call and the density call of the
\* first run both rejected; the second run has called both again, both have
\* returned a count, and its showResults is about to use them
C13_Witness ==
    /\ variant = "C"
    /\ FailedIn(1, "detection") /\ FailedIn(1, "crowd")
    /\ run[2].pc = "delay2"
    /\ run[2].detection # Null /\ run[2].crowdCount # Null

\* a run of an image uploaded after image r has already written its result
Superseded(r) == \E q \in Runs : q > r /\ run[q].shown > 0

\* C14 (as claimed): the latest upload supersedes: the showResults of a run
\* whose image has been followed by a newer upload that already displayed
\* its result does not replace the displayed final count and note, so that
\* once the runs have finished the page shows the result of the most
\* recently uploaded image.
C14_LatestUploadSupersedes ==
    [][\A r \in Runs :
          (Shows(r) /\ Superseded(r))
             => /\ dom'.countTotal = dom.countTotal
                /\ dom'.resultNote = dom.resultNote
    ]_vars

====
